---- MODULE Spec2Model ----
(***************************************************************************)
(* Adaptive Review System (quizme): Question, Box, BoxManager and the      *)
(* ARController session loop.                                              *)
(*                                                                         *)
(* Time is counted in seconds from the start of the session.  A string is  *)
(* a sequence of one-character strings, so that strip(), lower() and the   *)
(* punctuation filter are computed character by character.  A question is  *)
(* identified by the position of its record in question_data (the uuid4 of *)
(* Question.__init__: unique and never reused).                            *)
(***************************************************************************)
EXTENDS Integers, Sequences, FiniteSets, TLC

\* ------------------------------------------------------------------ bounds
\* The clock of a session stops advancing at MaxNow seconds.
MaxNow == 540
\* The clock of the direct-call specification stops at MaxCallsNow seconds.
MaxCallsNow == 360
\* The longest question_data list a session is started with.
MaxRecords == 2
\* The number of question objects of the direct-call specification.
MaxQuestions == 2
\* The longest question_data list of a session drawn from every kind of record.
MaxShortRecords == 1
\* The number of question objects of the specification with misuse.
MaxMisuseQuestions == 1
\* The count of presentations of one question stops at MaxPresented.
MaxPresented == 4

\* --------------------------------------------------------- program values
\* timedelta(seconds=60), (seconds=0), (seconds=180), (seconds=360)
MissedInterval == 60
UnaskedInterval == 0
OnceInterval == 180
TwiceInterval == 360
\* timedelta.max: longer than any elapsed time (scaled to fit an integer)
TimedeltaMax == 2000000000
\* datetime.min: earlier than any real timestamp (scaled likewise);
\* now - DatetimeMin exceeds every finite interval and is below TimedeltaMax
DatetimeMin == -1000000
\* the None a call returns when it has no question
None == 0

\* The five boxes of BoxManager.__init__, by index, and their intervals.
NumBoxes == 5
BoxIndexes == 0 .. (NumBoxes - 1)

\* the intervals with no delay on Missed Questions
PriorityIntervalNoDelay(i) ==
    CASE i = 0 -> UnaskedInterval
      [] i = 1 -> UnaskedInterval
      [] i = 2 -> OnceInterval
      [] i = 3 -> TwiceInterval
      [] OTHER -> TimedeltaMax

priority_interval(i) ==
    CASE i = 0 -> MissedInterval
      [] i = 1 -> UnaskedInterval
      [] i = 2 -> OnceInterval
      [] i = 3 -> TwiceInterval
      [] OTHER -> TimedeltaMax

\* ------------------------------------------------------------ str helpers
Whitespace == {" ", "\t", "\n"}
WordChars == {"a", "e", "f", "l", "o", "q", "r", "s", "t", "u", "y", "n",
              "A", "E", "F", "L", "O", "Q", "R", "S", "T", "U", "Y", "N",
              "4", "_"}

\* str.lower() on one character
LowerChar(c) ==
    CASE c = "A" -> "a" [] c = "E" -> "e" [] c = "F" -> "f" [] c = "L" -> "l"
      [] c = "O" -> "o" [] c = "Q" -> "q" [] c = "R" -> "r" [] c = "S" -> "s"
      [] c = "T" -> "t" [] c = "U" -> "u" [] c = "Y" -> "y" [] c = "N" -> "n"
      [] OTHER -> c

\* str.lower()
Lower(s) == [i \in 1 .. Len(s) |-> LowerChar(s[i])]

\* str.strip(): drop leading and trailing whitespace
Strip(s) ==
    LET keep == {i \in 1 .. Len(s) : s[i] \notin Whitespace}
    IN  IF keep = {} THEN <<>>
        ELSE LET lo == CHOOSE i \in keep : \A j \in keep : i <= j
                 hi == CHOOSE i \in keep : \A j \in keep : j <= i
             IN  SubSeq(s, lo, hi)

\* re.sub(r'[^\w\s]', '', text): drop what is neither a word character nor whitespace
StripPunctuation(s) == SelectSeq(s, LAMBDA c : c \in WordChars \cup Whitespace)

\* ShortAnswer._normalize
Normalize(text, case_sensitive) ==
    LET stripped == Strip(text)
        cased == IF case_sensitive THEN stripped ELSE Lower(stripped)
    IN  StripPunctuation(cased)

\* ShortAnswer.check_answer
ShortAnswerCheck(answer, correct_answer, case_sensitive) ==
    Normalize(answer, case_sensitive) = Normalize(correct_answer, case_sensitive)

\* What a check_answer call produces: a bool, or a raised ValueError.
Returns(b) == [raised |-> FALSE, value |-> b]
RaisesValueError == [raised |-> TRUE, value |-> FALSE]

\* check_answer scoring an unrecognised response as a wrong answer
TrueFalseCheckLenient(answer, correct_answer) ==
    LET normalized_answer == Lower(Strip(answer))
    IN  IF normalized_answer \in {<<"t", "r", "u", "e">>, <<"t">>}
        THEN Returns(TRUE = correct_answer)
        ELSE IF normalized_answer \in {<<"f", "a", "l", "s", "e">>, <<"f">>}
        THEN Returns(FALSE = correct_answer)
        ELSE Returns(FALSE)

\* TrueFalse.check_answer
TrueFalseCheck(answer, correct_answer) ==
    LET normalized_answer == Lower(Strip(answer))
    IN  IF normalized_answer \in {<<"t", "r", "u", "e">>, <<"t">>}
        THEN Returns(TRUE = correct_answer)
        ELSE IF normalized_answer \in {<<"f", "a", "l", "s", "e">>, <<"f">>}
        THEN Returns(FALSE = correct_answer)
        ELSE RaisesValueError

\* ------------------------------------------------------- question records
\* One entry of the question file: the keys it has and their values.
QRecord(type, keys, answer_is_bool, answer_str, answer_bool) ==
    [type |-> type, keys |-> keys, answer_is_bool |-> answer_is_bool,
     answer_str |-> answer_str, answer_bool |-> answer_bool,
     case_sensitive |-> FALSE]
CaseSensitive(r) == [r EXCEPT !.case_sensitive = TRUE]

AllKeys == {"type", "question", "correct_answer"}
ShortAnswerRecord == QRecord("shortanswer", AllKeys, FALSE, <<"Y", "e", "s">>, FALSE)
TrueRecord == QRecord("truefalse", AllKeys, TRUE, <<>>, TRUE)
FalseRecord == QRecord("truefalse", AllKeys, TRUE, <<>>, FALSE)
EssayRecord == QRecord("essay", AllKeys, FALSE, <<"Y", "e", "s">>, FALSE)
NoAnswerRecord == QRecord("shortanswer", {"type", "question"}, FALSE, <<>>, FALSE)
TextAnswerRecord == QRecord("truefalse", AllKeys, FALSE, <<"t", "r", "u", "e">>, FALSE)

\* the records of a session of several questions
Records == {ShortAnswerRecord, TrueRecord, EssayRecord, NoAnswerRecord,
            TextAnswerRecord}
\* every kind of record
AllRecords == Records \cup {FalseRecord, CaseSensitive(ShortAnswerRecord)}

\* The lines a user may type at the "Your answer: " prompt.
Responses == {
    <<"q">>, <<"Q">>, <<"q", " ">>,
    <<"t">>, <<" ", "T", "r", "u", "e", " ">>,
    <<"F", "a", "l", "s", "e">>, <<"\t", "F">>,
    <<" ", "Y", "E", "S", "!">>, <<"n", "o">>, <<>>}

\* ------------------------------------------------------------------- Box
\* list.remove after the membership test: drop the first occurrence
RemoveFirst(questions, q) ==
    LET at == {i \in 1 .. Len(questions) : questions[i] = q}
    IN  IF at = {} THEN questions
        ELSE LET i == CHOOSE i \in at : \A j \in at : i <= j
             IN  SubSeq(questions, 1, i - 1) \o SubSeq(questions, i + 1, Len(questions))

\* Box.add_question
add_question(questions, q) ==
    IF \E i \in 1 .. Len(questions) : questions[i] = q
    THEN questions
    ELSE Append(questions, q)

\* Box.remove_question
remove_question(questions, q) ==
    IF \E i \in 1 .. Len(questions) : questions[i] = q
    THEN RemoveFirst(questions, q)
    ELSE questions

\* a sort that puts a later member before the earlier ones of the same key
RECURSIVE SortedLastFirst(_, _)
SortedLastFirst(questions, asked) ==
    IF questions = <<>> THEN <<>>
    ELSE LET n == Len(questions)
             x == questions[n]
             front == SortedLastFirst(SubSeq(questions, 1, n - 1), asked)
             before == SelectSeq(front, LAMBDA y : asked[y] < asked[x])
             after == SelectSeq(front, LAMBDA y : asked[y] >= asked[x])
         IN  before \o <<x>> \o after

\* sorted(..., key=lambda x: x.last_asked): stable, ascending
RECURSIVE Sorted(_, _)
Sorted(questions, asked) ==
    IF questions = <<>> THEN <<>>
    ELSE LET n == Len(questions)
             x == questions[n]
             front == Sorted(SubSeq(questions, 1, n - 1), asked)
             before == SelectSeq(front, LAMBDA y : asked[y] <= asked[x])
             after == SelectSeq(front, LAMBDA y : asked[y] > asked[x])
         IN  before \o <<x>> \o after

\* get_next_priority_question without the test against the interval
FirstSorted(questions, interval, asked, t) ==
    LET sorted_questions == Sorted(questions, asked)
    IN  IF sorted_questions = <<>> THEN None ELSE sorted_questions[1]

\* get_next_priority_question scanning the list as it is, unsorted
FirstDueUnsorted(questions, interval, asked, t) ==
    LET due == {i \in 1 .. Len(questions) : (t - asked[questions[i]]) >= interval}
    IN  IF due = {} THEN None
        ELSE questions[CHOOSE i \in due : \A j \in due : i <= j]

\* Box.get_next_priority_question
get_next_priority_question(questions, interval, asked, t) ==
    LET sorted_questions == Sorted(questions, asked)
        due == {i \in 1 .. Len(sorted_questions) :
                   (t - asked[sorted_questions[i]]) >= interval}
    IN  IF due = {} THEN None
        ELSE sorted_questions[CHOOSE i \in due : \A j \in due : i <= j]

\* ------------------------------------------------------------ BoxManager
\* the dict assignment self._question_location[str(question.id)] = i
SetLocation(location, q, i) ==
    [x \in (DOMAIN location) \cup {q} |-> IF x = q THEN i ELSE location[x]]

\* add_new_question putting the question in the first box of the list
AddToFirstBox(bs, q) == [bs EXCEPT ![0] = add_question(bs[0], q)]

\* BoxManager.add_new_question: the boxes and the location index after it
add_new_question_boxes(bs, q) == [bs EXCEPT ![1] = add_question(bs[1], q)]
add_new_question_location(location, q) == SetLocation(location, q, 1)

\* move_target with an incorrect answer demoting by one box only
MoveTargetDemoteOne(current, correct) ==
    IF correct
    THEN IF current = 0 THEN 2
         ELSE IF current + 1 < NumBoxes - 1 THEN current + 1 ELSE NumBoxes - 1
    ELSE IF current > 0 THEN current - 1 ELSE 0

\* move_target without the special case of box 0
MoveTargetNoSkip(current, correct) ==
    IF correct
    THEN IF current + 1 < NumBoxes - 1 THEN current + 1 ELSE NumBoxes - 1
    ELSE 0

\* move_target capped one box too low
MoveTargetLowCap(current, correct) ==
    IF correct
    THEN IF current = 0 THEN 2
         ELSE IF current + 1 < NumBoxes - 2 THEN current + 1 ELSE NumBoxes - 2
    ELSE 0

\* move_target leaving a correctly answered question where it is
MoveTargetNoAdvance(current, correct) == IF correct THEN current ELSE 0

\* BoxManager.move_question: the box the question is moved to
move_target(current, correct) ==
    IF correct
    THEN IF current = 0 THEN 2
         ELSE IF current + 1 < NumBoxes - 1 THEN current + 1 ELSE NumBoxes - 1
    ELSE 0

\* move_question_boxes without the removal from the old box
MoveWithoutRemove(bs, q, current, target) ==
    [bs EXCEPT ![target] = add_question(bs[target], q)]

\* BoxManager.move_question: the boxes after remove_question and add_question
move_question_boxes(bs, q, current, target) ==
    LET removed == [bs EXCEPT ![current] = remove_question(bs[current], q)]
    IN  [removed EXCEPT ![target] = add_question(removed[target], q)]

\* BoxManager.get_next_question: boxes 0..3 in order, first result that is a question
RECURSIVE ScanFrom(_, _, _, _)
ScanFrom(i, bs, asked, t) ==
    IF i > NumBoxes - 2 THEN None
    ELSE LET found == get_next_priority_question(bs[i], priority_interval(i), asked, t)
         IN  IF found # None THEN found ELSE ScanFrom(i + 1, bs, asked, t)

\* get_next_question leaving out the first box instead of the last
ScanAfterFirst(bs, asked, t) == ScanFrom(1, bs, asked, t)

get_next_question(bs, asked, t) == ScanFrom(0, bs, asked, t)

\* ----------------------------------------------------------------- state
VARIABLES
    question_data,       \* the list ARController is constructed with
    next_record,         \* position of the loop of _initialize_questions
    boxes,               \* BoxManager._boxes: index -> Box._questions (a list of ids)
    question_location,   \* BoxManager._question_location
    last_asked,          \* Question._last_asked of every created question
    now,                 \* datetime.now()
    pc,                  \* where the controller is
    question,            \* the question of the last call (argument or result)
    user_answer,         \* the line read by input()
    op,                  \* the last operation performed
    answered_correctly,  \* move_question's argument
    current_box_index,   \* move_question's local
    new_box_index,       \* move_question's local
    presented            \* times each question was presented, where counted

vars == <<question_data, next_record, boxes, question_location, last_asked, now,
          pc, question, user_answer, op, answered_correctly, current_box_index,
          new_box_index, presented>>

manager == <<boxes, question_location>>
moveLocals == <<answered_correctly, current_box_index, new_box_index>>

\* move_question has not run in the last operation
NoMove ==
    /\ answered_correctly' = FALSE
    /\ current_box_index' = -1
    /\ new_box_index' = -1

EmptyBoxes == [i \in BoxIndexes |-> <<>>]
NoLocation == [x \in {} |-> 0]

\* Question.__init__: a new question was never asked
NewQuestion(asked, q) ==
    [x \in (DOMAIN asked) \cup {q} |-> IF x = q THEN DatetimeMin ELSE asked[x]]

\* Question.ask (ShortAnswer.ask, TrueFalse.ask): record the time of asking
ask(asked, q, t) == [asked EXCEPT ![q] = t]

\* BoxManager.add_new_question as a step
DoAddNewQuestion(q) ==
    /\ boxes' = add_new_question_boxes(boxes, q)
    /\ question_location' = add_new_question_location(question_location, q)

\* What the dict lookup of move_question produces: an index, or a KeyError.
Found(i) == [raised |-> FALSE, value |-> i]
RaisesKeyError == [raised |-> TRUE, value |-> 0]

\* the lookup written as location.get(id, 1): an unknown id counts as unasked
LookupWithDefault(location, q) ==
    IF q \in DOMAIN location THEN Found(location[q]) ELSE Found(1)

\* BoxManager.move_question: self._question_location[str(question.id)]
lookup(location, q) ==
    IF q \in DOMAIN location THEN Found(location[q]) ELSE RaisesKeyError

\* BoxManager.move_question as a step
DoMoveQuestion(q, correct) ==
    LET current == lookup(question_location, q).value
        target == move_target(current, correct)
    IN  /\ answered_correctly' = correct
        /\ current_box_index' = current
        /\ new_box_index' = target
        /\ boxes' = move_question_boxes(boxes, q, current, target)
        /\ question_location' = SetLocation(question_location, q, target)

\* the clock moves on by a minute or by three
TickSteps == {60, 180}

\* ------------------------------------------------- the controller session
UpTo(n, records) == UNION {[1 .. k -> records] : k \in 0 .. n}

\* the state once BoxManager() is constructed, before the records are read
Constructed ==
    /\ next_record = 1
    /\ boxes = EmptyBoxes
    /\ question_location = NoLocation
    /\ last_asked = NoLocation
    /\ now = 0
    /\ pc = "init"
    /\ question = None
    /\ user_answer = <<>>
    /\ op = "construct"
    /\ answered_correctly = FALSE
    /\ current_box_index = -1
    /\ new_box_index = -1
    /\ presented = [i \in DOMAIN question_data |-> 0]

Init ==
    /\ question_data \in UpTo(MaxRecords, Records)
    /\ Constructed

\* a session on a short list, drawn from every kind of record
InitShort ==
    /\ question_data \in UpTo(MaxShortRecords, AllRecords)
    /\ Constructed

\* what one pass of the loop of _initialize_questions does with a record
RecordOutcome(r) ==
    IF r.type = "shortanswer"
    THEN IF {"question", "correct_answer"} \subseteq r.keys THEN "add" ELSE "skip"
    ELSE IF r.type = "truefalse"
    THEN IF ~({"question", "correct_answer"} \subseteq r.keys) THEN "skip"
         ELSE IF r.answer_is_bool THEN "add" ELSE "raise"
    ELSE "skip"

\* ARController._initialize_questions: one pass of its loop
InitializeQuestion ==
    /\ pc = "init"
    /\ next_record <= Len(question_data)
    /\ LET outcome == RecordOutcome(question_data[next_record])
       IN  /\ IF outcome = "add"
              THEN /\ last_asked' = NewQuestion(last_asked, next_record)
                   /\ DoAddNewQuestion(next_record)
                   /\ question' = next_record
                   /\ op' = "add_new_question"
              ELSE /\ UNCHANGED <<last_asked, manager, question>>
                   /\ op' = "skip_record"
           /\ pc' = IF outcome = "raise" THEN "error" ELSE "init"
    /\ next_record' = next_record + 1
    /\ NoMove
    /\ UNCHANGED <<question_data, presented, now, user_answer>>

\* ARController.start: the loop is entered once every record was seen
Start ==
    /\ pc = "init"
    /\ next_record > Len(question_data)
    /\ pc' = "loop"
    /\ op' = "start"
    /\ NoMove
    /\ UNCHANGED <<question_data, presented, next_record, manager, last_asked, now, question,
                   user_answer>>

\* ARController.start: question = get_next_question(); the loop ends on None
GetNext ==
    /\ pc = "loop"
    /\ question' = get_next_question(boxes, last_asked, now)
    /\ pc' = IF question' = None THEN "complete" ELSE "got"
    /\ op' = "get_next_question"
    /\ NoMove
    /\ UNCHANGED <<question_data, presented, next_record, manager, last_asked, now, user_answer>>

\* ARController.start: print(question.ask())
Ask ==
    /\ pc = "got"
    /\ last_asked' = ask(last_asked, question, now)
    /\ pc' = "input"
    /\ op' = "ask"
    /\ NoMove
    /\ UNCHANGED <<question_data, presented, next_record, manager, now, question, user_answer>>

\* time passes while input() waits for the user
Wait ==
    /\ pc = "input"
    /\ \E d \in TickSteps :
          /\ now + d <= MaxNow
          /\ now' = now + d
    /\ op' = "wait"
    /\ NoMove
    /\ UNCHANGED <<question_data, presented, next_record, manager, last_asked, pc, question,
                   user_answer>>

\* Input comparing the line with 'q' without lower()
InputQuitLowerOnly ==
    /\ pc = "input"
    /\ \E r \in Responses :
          /\ user_answer' = r
          /\ pc' = IF r = <<"q">> THEN "quit" ELSE "check"
    /\ op' = "input"
    /\ NoMove
    /\ UNCHANGED <<question_data, presented, next_record, manager, last_asked, now, question>>

\* ARController.start: user_answer = input(...); 'q' leaves the loop
Input ==
    /\ pc = "input"
    /\ \E r \in Responses :
          /\ user_answer' = r
          /\ pc' = IF Lower(r) = <<"q">> THEN "quit" ELSE "check"
    /\ op' = "input"
    /\ NoMove
    /\ UNCHANGED <<question_data, presented, next_record, manager, last_asked, now, question>>

\* question.check_answer(user_answer), by the type of the question
check_answer(q, answer) ==
    LET r == question_data[q]
    IN  IF r.type = "truefalse"
        THEN TrueFalseCheck(answer, r.answer_bool)
        ELSE Returns(ShortAnswerCheck(answer, r.answer_str, r.case_sensitive))

\* ARController.start: check the answer and move the question; a ValueError
\* of check_answer is caught nowhere in start and ends it.  The line read is
\* dead once checked (the next pass overwrites it before any use), so it is
\* cleared when the loop goes round.
CheckAndMove ==
    /\ pc = "check"
    /\ LET checked == check_answer(question, user_answer)
       IN  IF checked.raised
           THEN /\ pc' = "error"
                /\ op' = "check_answer"
                /\ NoMove
                /\ UNCHANGED <<manager, user_answer>>
           ELSE /\ pc' = "loop"
                /\ op' = "move_question"
                /\ DoMoveQuestion(question, checked.value)
                /\ user_answer' = <<>>
    /\ UNCHANGED <<question_data, presented, next_record, last_asked, now, question>>

Next ==
    \/ InitializeQuestion
    \/ Start
    \/ GetNext
    \/ Ask
    \/ Wait
    \/ Input
    \/ CheckAndMove

Spec == Init /\ [][Next]_vars

SpecShort == InitShort /\ [][Next]_vars

\* ------------------------- the session of a user who is right every time
\* The records that become questions of the session, of both types.
LoadedRecords == {ShortAnswerRecord, TrueRecord}

InitCorrect ==
    /\ question_data \in UpTo(MaxRecords, LoadedRecords)
    /\ Constructed

\* ARController.start: print(question.ask()), with the presentation counted
AskCounted ==
    /\ pc = "got"
    /\ presented[question] < MaxPresented
    /\ last_asked' = ask(last_asked, question, now)
    /\ presented' = [presented EXCEPT ![question] = @ + 1]
    /\ pc' = "input"
    /\ op' = "ask"
    /\ NoMove
    /\ UNCHANGED <<question_data, next_record, manager, now, question, user_answer>>

\* Input for a user who never types 'q' and whose line check_answer accepts
InputCorrect ==
    /\ Input
    /\ pc' = "check"
    /\ check_answer(question, user_answer') = Returns(TRUE)

\* a step of the controller or an answer of the user: at most one is enabled
StepCorrect ==
    \/ InitializeQuestion
    \/ Start
    \/ GetNext
    \/ AskCounted
    \/ InputCorrect
    \/ CheckAndMove

NextCorrect ==
    \/ StepCorrect
    \/ Wait

\* The controller is one thread that runs on whenever it can, and this user
\* answers every prompt; how long the user takes (Wait) is left open.
SpecCorrect ==
    /\ InitCorrect
    /\ [][NextCorrect]_vars
    /\ WF_vars(StepCorrect)

\* ------------------------------------- BoxManager called directly, in any order
\* Any caller of the public operations of BoxManager and Question: questions
\* are created and added one by one, and between two calls the clock may move.
InitCalls ==
    /\ question_data = [i \in 1 .. MaxQuestions |-> ShortAnswerRecord]
    /\ next_record = 1
    /\ boxes = EmptyBoxes
    /\ question_location = NoLocation
    /\ last_asked = NoLocation
    /\ now = 0
    /\ pc = "calls"
    /\ question = None
    /\ user_answer = <<>>
    /\ op = "construct"
    /\ answered_correctly = FALSE
    /\ current_box_index = -1
    /\ new_box_index = -1
    /\ presented = [i \in DOMAIN question_data |-> 0]

\* add_new_question(q) for a question q just created
CallAddNewQuestion ==
    /\ next_record <= Len(question_data)
    /\ last_asked' = NewQuestion(last_asked, next_record)
    /\ DoAddNewQuestion(next_record)
    /\ question' = next_record
    /\ next_record' = next_record + 1
    /\ op' = "add_new_question"
    /\ NoMove
    /\ UNCHANGED <<question_data, presented, now, pc, user_answer>>

\* move_question(q, answered_correctly) for a question the manager holds
CallMoveQuestion ==
    /\ \E q \in DOMAIN question_location, correct \in BOOLEAN :
          /\ DoMoveQuestion(q, correct)
          /\ question' = q
    /\ op' = "move_question"
    /\ UNCHANGED <<question_data, presented, next_record, last_asked, now, pc, user_answer>>

\* get_next_question()
CallGetNextQuestion ==
    /\ question' = get_next_question(boxes, last_asked, now)
    /\ op' = "get_next_question"
    /\ NoMove
    /\ UNCHANGED <<question_data, presented, next_record, manager, last_asked, now, pc, user_answer>>

\* q.ask() for a created question
CallAsk ==
    /\ \E q \in DOMAIN last_asked :
          /\ last_asked' = ask(last_asked, q, now)
          /\ question' = q
    /\ op' = "ask"
    /\ NoMove
    /\ UNCHANGED <<question_data, presented, next_record, manager, now, pc, user_answer>>

\* time passes between two calls
Advance ==
    /\ \E d \in TickSteps :
          /\ now + d <= MaxCallsNow
          /\ now' = now + d
    /\ op' = "advance"
    /\ question' = None
    /\ NoMove
    /\ UNCHANGED <<question_data, presented, next_record, manager, last_asked, pc, user_answer>>

NextCalls ==
    \/ CallAddNewQuestion
    \/ CallMoveQuestion
    \/ CallGetNextQuestion
    \/ CallAsk
    \/ Advance

SpecCalls == InitCalls /\ [][NextCalls]_vars

\* --------------------------- BoxManager called directly, misuse included
\* As above, and the caller may also move a question that was never added and
\* add a question that the manager holds already.  The questions exist from
\* the start and the clock stands still.
InitMisuse ==
    /\ question_data = [i \in 1 .. MaxMisuseQuestions |-> ShortAnswerRecord]
    /\ next_record = 1
    /\ boxes = EmptyBoxes
    /\ question_location = NoLocation
    /\ last_asked = [i \in 1 .. MaxMisuseQuestions |-> DatetimeMin]
    /\ now = 0
    /\ pc = "calls"
    /\ question = None
    /\ user_answer = <<>>
    /\ op = "construct"
    /\ answered_correctly = FALSE
    /\ current_box_index = -1
    /\ new_box_index = -1
    /\ presented = [i \in DOMAIN question_data |-> 0]

\* add_new_question(q) for any question, held or not
CallAddAnyQuestion ==
    /\ \E q \in DOMAIN last_asked :
          /\ DoAddNewQuestion(q)
          /\ question' = q
    /\ op' = "add_new_question"
    /\ NoMove
    /\ UNCHANGED <<question_data, presented, next_record, last_asked, now, pc, user_answer>>

\* move_question(q, answered_correctly) for any question, held or not: the
\* lookup of line 47 raises before anything is changed
CallMoveAnyQuestion ==
    /\ \E q \in DOMAIN last_asked, correct \in BOOLEAN :
          /\ question' = q
          /\ IF lookup(question_location, q).raised
             THEN /\ op' = "KeyError"
                  /\ NoMove
                  /\ UNCHANGED manager
             ELSE /\ op' = "move_question"
                  /\ DoMoveQuestion(q, correct)
    /\ UNCHANGED <<question_data, presented, next_record, last_asked, now, pc, user_answer>>

NextMisuse ==
    \/ CallAddAnyQuestion
    \/ CallMoveAnyQuestion
    \/ CallGetNextQuestion
    \/ CallAsk

SpecMisuse == InitMisuse /\ [][NextMisuse]_vars

\* ============================================================ properties
\* the places (box, position) at which q is held
Occurrences(q) ==
    {p \in UNION {{<<i, k>> : k \in 1 .. Len(boxes[i])} : i \in BoxIndexes} :
        boxes[p[1]][p[2]] = q}
InBox(q, i) == \E k \in 1 .. Len(boxes[i]) : boxes[i][k] = q
InOnly(q, i) == InBox(q, i) /\ Cardinality(Occurrences(q)) = 1

\* the records a question is made of, and the questions loaded so far
WellFormed == {ShortAnswerRecord, CaseSensitive(ShortAnswerRecord), TrueRecord, FalseRecord}
Loaded == {k \in 1 .. (next_record - 1) : question_data[k] \in WellFormed}

\* C1: in every state of a session, every loaded question is held by exactly
\* one of the five boxes (once), and the location index of its id names that box.
C1_ExactlyOneBox ==
    pc # "calls" =>
        \A q \in Loaded :
            /\ Cardinality(Occurrences(q)) = 1
            /\ q \in DOMAIN question_location
            /\ question_location[q] \in BoxIndexes
            /\ InBox(q, question_location[q])

\* two loaded questions, one moved up to Known Questions, one in Missed Questions
C1_Witness ==
    /\ pc = "loop"
    /\ op = "move_question"
    /\ \E q1, q2 \in Loaded : InBox(q1, 4) /\ InBox(q2, 0)

\* C2: after move_question(q, False), q is in box 0 and nowhere else and its
\* location index is 0, whichever of the boxes 0..4 it was in.
C2_IncorrectToMissed ==
    (op = "move_question" /\ ~answered_correctly) =>
        /\ current_box_index \in BoxIndexes
        /\ InOnly(question, 0)
        /\ question_location[question] = 0

\* an incorrect answer on a question of Known Questions
C2_Witness ==
    /\ op = "move_question"
    /\ ~answered_correctly
    /\ current_box_index = 4
    /\ InBox(question, 0)

\* C3: after move_question(q, True) on a question of box 0, q is in box 2 and
\* not in box 1.
C3_MissedToOnce ==
    (op = "move_question" /\ answered_correctly /\ current_box_index = 0) =>
        /\ InOnly(question, 2)
        /\ ~InBox(question, 1)
        /\ question_location[question] = 2

\* a correct answer on a question of Missed Questions
C3_Witness ==
    /\ op = "move_question"
    /\ answered_correctly
    /\ current_box_index = 0
    /\ InBox(question, 2)

\* C4: after move_question(q, True) on a question of box i, q is in box i+1
\* for i in 1..3 and stays in box 4 for i = 4.
C4_CorrectAdvances ==
    (op = "move_question" /\ answered_correctly /\ current_box_index \in 1 .. 4) =>
        LET to == IF current_box_index = 4 THEN 4 ELSE current_box_index + 1
        IN  /\ InOnly(question, to)
            /\ question_location[question] = to

\* a correct answer on a question of Correctly Answered Twice
C4_Witness ==
    /\ op = "move_question"
    /\ answered_correctly
    /\ current_box_index = 3
    /\ InBox(question, 4)

\* the result of the last call, when that call was get_next_question
Returned == op = "get_next_question" /\ question # None

\* C5: a question returned by get_next_question is not in box 4.
C5_NeverKnown == Returned => ~InBox(question, 4)

\* get_next_question returns a question while Known Questions holds another
C5_Witness == Returned /\ Len(boxes[4]) > 0

\* the interval of each box, in seconds, as the documentation lists them
Interval(i) == CASE i = 0 -> 60 [] i = 1 -> 0 [] i = 2 -> 180 [] i = 3 -> 360
\* q was never presented, or at least d seconds ago
Waited(q, d) == last_asked[q] = DatetimeMin \/ now - last_asked[q] >= d
\* the members of box i that may be presented now
Eligible(i) == {q \in DOMAIN last_asked : InBox(q, i) /\ Waited(q, Interval(i))}

\* C6: a question returned by get_next_question is in one of the boxes 0..3
\* and was last presented at least that box's interval ago (or never).
C6_IntervalRespected ==
    Returned =>
        \E i \in 0 .. 3 : InOnly(question, i) /\ Waited(question, Interval(i))

\* a question of Correctly Answered Twice returned exactly 360 s after it was asked
C6_Witness ==
    /\ Returned
    /\ InBox(question, 3)
    /\ now - last_asked[question] = 360

\* C7: get_next_question returns an eligible question of the lowest box among
\* 0..3 that has one, and None only when none of them has one.
C7_LowestBoxFirst ==
    op = "get_next_question" =>
        LET having == {i \in 0 .. 3 : Eligible(i) # {}}
        IN  IF having = {} THEN question = None
            ELSE question \in Eligible(CHOOSE i \in having : \A j \in having : i <= j)

\* Missed Questions and Unasked Questions both hold an eligible question
C7_Witness ==
    /\ Returned
    /\ Eligible(0) # {}
    /\ Eligible(1) # {}
    /\ InBox(question, 0)

\* C8: the question a box's get_next_priority_question returns was asked no
\* later than any other member of that box.
C8_LeastRecentFirst ==
    \A i \in BoxIndexes :
        LET r == get_next_priority_question(boxes[i], priority_interval(i), last_asked, now)
        IN  r # None =>
                \A k \in 1 .. Len(boxes[i]) : last_asked[r] <= last_asked[boxes[i][k]]

\* a box whose first member was asked after its second, both being eligible:
\* the second is the one selected
C8_Witness ==
    \E i \in 0 .. 3 :
        /\ Len(boxes[i]) >= 2
        /\ {boxes[i][1], boxes[i][2]} \subseteq Eligible(i)
        /\ last_asked[boxes[i][2]] < last_asked[boxes[i][1]]
        /\ last_asked[boxes[i][2]] # DatetimeMin
        /\ get_next_priority_question(boxes[i], priority_interval(i), last_asked, now)
               = boxes[i][2]

\* C9: right after add_new_question(q) on a new question, q is in box 1 only,
\* its location index is 1, and if box 0 has no eligible question and q is
\* alone in box 1 then get_next_question returns q.
C9_FreshIsUnasked ==
    op = "add_new_question" =>
        /\ InOnly(question, 1)
        /\ question_location[question] = 1
        /\ (Eligible(0) = {} /\ boxes[1] = <<question>>) =>
               get_next_question(boxes, last_asked, now) = question

\* a question added while a missed one waits in box 0: the new one is selected
C9_Witness ==
    /\ op = "add_new_question"
    /\ boxes[1] = <<question>>
    /\ Len(boxes[0]) > 0
    /\ Eligible(0) = {}
    /\ get_next_question(boxes, last_asked, now) = question

\* the responses of the model that read as true and as false once trimmed
\* and lower-cased
SaysTrue == {<<"t">>, <<" ", "T", "r", "u", "e", " ">>}
SaysFalse == {<<"F", "a", "l", "s", "e">>, <<"\t", "F">>}

\* C10: on a true/false question, a response that reads as true or false is
\* scored correct exactly when it equals the canonical answer, and the
\* question moves accordingly; any other response raises an error, and then no
\* box and no location index entry changes.
C10_TrueFalseChecked ==
    [][(pc = "check" /\ question_data[question].type = "truefalse") =>
          IF user_answer \in SaysTrue \cup SaysFalse
          THEN /\ pc' = "loop"
               /\ op' = "move_question"
               /\ answered_correctly' =
                      ((user_answer \in SaysTrue) = question_data[question].answer_bool)
               /\ (~answered_correctly') => question_location'[question] = 0
               /\ answered_correctly' => question_location'[question] # 0
          ELSE /\ pc' = "error"
               /\ op' = "check_answer"
               /\ boxes' = boxes
               /\ question_location' = question_location]_vars

\* an unrecognised response to a true/false question has ended the loop
C10_Witness ==
    /\ pc = "error"
    /\ op = "check_answer"
    /\ question_data[question].type = "truefalse"
    /\ user_answer \notin SaysTrue \cup SaysFalse
    /\ InBox(question, 1)

\* C11: an unrecognised response to a true/false question does not end the
\* session: the controller then prompts again or fetches the next question.
C11_FormatErrorNotFatal ==
    [][(pc = "check" /\ question_data[question].type = "truefalse"
          /\ user_answer \notin SaysTrue \cup SaysFalse) =>
          pc' \in {"input", "loop"}]_vars

\* C12: loading never aborts: once it is over every record was seen, and when
\* the loop is entered every well-formed record of the list is in box 1.
C12_LoadNeverAborts ==
    /\ pc # "init" => next_record > Len(question_data)
    /\ pc = "error" => op = "check_answer"
    /\ op = "start" =>
          \A k \in 1 .. Len(question_data) :
              question_data[k] \in WellFormed =>
                  InOnly(k, 1) /\ question_location[k] = 1

\* C13: the response "q" or "Q" ends the session at once: the answer is not
\* evaluated and no question is moved, so the boxes and the location index are
\* as they were before the question was presented, and nothing happens after.
C13_QuitLeavesBoxes ==
    [][/\ (pc = "input" /\ op' = "input" /\ user_answer' \in {<<"q">>, <<"Q">>}) =>
              pc' = "quit"
       /\ pc \in {"loop", "got", "input"} => UNCHANGED manager
       /\ pc = "quit" => UNCHANGED vars]_vars

\* the user has typed Q at the prompt of a question, after an earlier move
C13_Witness ==
    /\ pc = "quit"
    /\ user_answer = <<"Q">>
    /\ InBox(question, question_location[question])
    /\ \E q \in Loaded : q # question /\ ~InBox(q, 1)

\* C14: move_question on a question whose id is not in the location index
\* ends in an error, and no box and no location index entry changes.
C14_UnknownMoveRaises ==
    [][(op' \in {"move_question", "KeyError"}
          /\ question' \notin DOMAIN question_location) =>
          /\ op' = "KeyError"
          /\ UNCHANGED manager]_vars

\* a question that was never added has been moved
C14_Witness ==
    /\ op = "KeyError"
    /\ question \notin DOMAIN question_location
    /\ Occurrences(question) = {}

\* C19: after add_new_question(q) on a question the manager holds already, q
\* is in exactly one box and the location index names that box.
C19_ReAddKeepsOneBox ==
    op = "add_new_question" =>
        /\ Cardinality(Occurrences(question)) = 1
        /\ InBox(question, question_location[question])

\* the last step was an incorrect answer moving `question` to Missed Questions
JustMissed == op = "move_question" /\ ~answered_correctly

\* C15 as claimed: the get_next_question call made right after an incorrect
\* answer has moved a question to Missed Questions does not return that
\* question, however long the user took to answer.
C15_ImmediatePollSkips ==
    [][(JustMissed /\ op' = "get_next_question") => question' # question]_vars

\* C15 as amended: that call does not return the question when fewer than 60 s
\* have passed since it was presented; once 60 s have passed since it was
\* presented the question is eligible, and the call returns a question of
\* Missed Questions.
C15_SkipsWithinAMinute ==
    [][(JustMissed /\ op' = "get_next_question") =>
          /\ InOnly(question, 0)
          /\ now - last_asked[question] < 60 => question' # question
          /\ now - last_asked[question] >= 60 => (question' # None /\ InBox(question', 0))]_vars

\* a poll at the very time a question of Missed Questions was presented: the
\* question is passed over
C15_Witness ==
    /\ op = "get_next_question"
    /\ \E q \in Loaded : InBox(q, 0) /\ last_asked[q] = now /\ question # q

\* C16: a question that is in Known Questions stays there in every later state
\* of the session, is not presented again and is not moved again.
C16_KnownIsTerminal ==
    [][\A q \in Loaded :
          InBox(q, 4) =>
              /\ InOnly(q, 4)'
              /\ question_location'[q] = 4
              /\ last_asked'[q] = last_asked[q]
              /\ ~(op' \in {"get_next_question", "ask", "move_question"} /\ question' = q)]_vars

\* a question is fetched while another one is in Known Questions
C16_Witness ==
    /\ op = "get_next_question"
    /\ question # None
    /\ \E q \in Loaded : InBox(q, 4) /\ q # question

\* C17: when the session ends because get_next_question returned None, every
\* loaded question is in Known Questions.
C17_CompleteMeansAllKnown ==
    pc = "complete" => \A q \in Loaded : InBox(q, 4)

\* the position of q in box i
Position(q, i) == CHOOSE k \in 1 .. Len(boxes[i]) : boxes[i][k] = q

\* C18: among the members of a box with the same last-asked time, the one the
\* box selects is the one inserted first; so in a fresh session the first
\* question fetched is the first one loaded, and a question fetched from
\* Unasked Questions is the earliest loaded of that box.
C18_TiesByInsertionOrder ==
    /\ \A i \in BoxIndexes :
          LET r == get_next_priority_question(boxes[i], priority_interval(i), last_asked, now)
          IN  r # None =>
                  \A k \in 1 .. Len(boxes[i]) :
                      last_asked[boxes[i][k]] = last_asked[r] => Position(r, i) <= k
    /\ (op = "get_next_question" /\ Loaded # {}
          /\ \A q \in Loaded : last_asked[q] = DatetimeMin) =>
              (question \in Loaded /\ \A q \in Loaded : question <= q)
    /\ (Returned /\ InBox(question, 1)) =>
              \A k \in 1 .. Len(boxes[1]) : question <= boxes[1][k]

\* two members of Missed Questions asked at the same time, the later loaded
\* one inserted first: that one is fetched
C18_Witness ==
    /\ Returned
    /\ Len(boxes[0]) = 2
    /\ last_asked[boxes[0][1]] = last_asked[boxes[0][2]]
    /\ boxes[0][1] > boxes[0][2]
    /\ question = boxes[0][1]

\* C20: move_question never puts a question in box 1; at every call of
\* get_next_question in a session the members of box 1 were never asked and
\* are eligible; and
\* when the session ends because nothing was returned, box 1 is empty and
\* every loaded question has been presented.
C20_UnaskedDrains ==
    /\ op = "move_question" => (new_box_index # 1 /\ ~InBox(question, 1))
    /\ pc \in {"loop", "got", "complete"} =>
          \A k \in 1 .. Len(boxes[1]) :
              /\ last_asked[boxes[1][k]] = DatetimeMin
              /\ get_next_priority_question(<<boxes[1][k]>>, priority_interval(1),
                                            last_asked, now) = boxes[1][k]
    /\ pc = "complete" =>
          /\ boxes[1] = <<>>
          /\ \A q \in Loaded : last_asked[q] # DatetimeMin

\* a session of two questions has ended by itself, one of them being missed
C20_Witness ==
    /\ pc = "complete"
    /\ Cardinality(Loaded) = 2
    /\ \E q \in Loaded : InBox(q, 0)
\* C21: in a session where the user never quits and every answer is correct,
\* no question is presented more than three times, a move takes the question
\* one box up (1 to 2 to 3 to 4) with as many presentations behind it as the
\* box it leaves, and the loop, once entered, terminates.
C21_CorrectSessionEnds ==
    /\ [](\A q \in DOMAIN presented : presented[q] <= 3)
    /\ [](op = "move_question" =>
             /\ answered_correctly
             /\ current_box_index \in 1 .. 3
             /\ new_box_index = current_box_index + 1
             /\ presented[question] = current_box_index)
    /\ [](pc # "quit")
    /\ ((pc = "loop") ~> (pc = "complete"))

\* a session that ended after a question was presented three times and became
\* known, next to a second loaded question
C21_Witness ==
    /\ pc = "complete"
    /\ Cardinality(Loaded) = 2
    /\ \E q \in Loaded : presented[q] = 3 /\ InBox(q, 4)

====
